---- MODULE Spec2Model ----
(***************************************************************************)
(* Matchmaking and relay core of the anonymous chat bot                    *)
(* (src/modules/menu.js, src/database.js, src/bot.js).                     *)
(*                                                                         *)
(* The participant store is the MongoDB collection anonymous_chat: a list  *)
(* of documents in natural (insertion) order, which is the order findOne   *)
(* and updateOne scan.  Time is counted in ticks of half an hour, so the   *)
(* one-hour exclusion window of the source is two ticks.  A document's     *)
(* recentPartners list is kept as the set of its <<partnerId, timestamp>>  *)
(* entries: the code only filters it by timestamp, maps it to ids and      *)
(* pulls entries by timestamp, none of which sees order or multiplicity.   *)
(* The diagnostic fields joinedAt and lastSearchTime are never read by the *)
(* code and are left out.                                                  *)
(***************************************************************************)
EXTENDS Integers, Sequences, FiniteSets, TLC

NumUsers == 3
NumClockUsers == 2
MaxTime == 3
NumAsyncUsers == 2
MaxTasks == 2

\* 60 * 60 * 1000 ms, in ticks of half an hour
ExclusionWindow == 2

\* JavaScript null (partner: null, and a findOne that finds nothing)
Null == 0

Users == 1 .. NumUsers

\* the participants of the specification in which time passes
ClockUsers == 1 .. NumClockUsers

VARIABLES
    anonymous_chat,  \* the participant collection, in natural order
    now,             \* Date.now(), in ticks
    sent,            \* what bot.sendMessage delivered during the last handler or step
    tasks,           \* the handlers suspended at an await, with their local variables
    message_queue,   \* the collection message_queue, in natural order
    submitted,       \* ids of the messages relayMessage took from a chatting sender
    received,        \* ids of the messages a send has put through to the recipient
    relayed,         \* what relayMessage returned ("true" or "false") when the last
                     \* event was a message, "none" when it was not
    connection       \* the last connection.update: "connecting" before the first
                     \* one, then "open" or "close"

\* the state of the relay, which no command reads or writes
relayVars == <<message_queue, submitted, received>>

vars == <<anonymous_chat, now, sent, tasks, message_queue, submitted, received,
          relayed, connection>>

\* the event is not a message nor a connection update: the queue and the relay's
\* records stay, and there is no result of relayMessage
NoRelay == relayed' = "none" /\ UNCHANGED relayVars /\ UNCHANGED connection

----------------------------------------------------------------------------
(* The store *)

FirstIdx(S) == IF S = {} THEN 0 ELSE CHOOSE i \in S : \A j \in S : i <= j

\* database.findOne(COLLECTION_NAME, { id: id }): index of the document, 0 for null
findOneById(coll, id) == FirstIdx({i \in DOMAIN coll : coll[i].id = id})

\* the query with status 'idle' in place of 'waiting': no waiting participant
\* is ever a candidate
waitingUserQueryIdle(doc, sender, currentRecentPartners) ==
    /\ doc.status = "idle"
    /\ doc.id \notin currentRecentPartners

\* the query with the $nin condition on id lost instead of the $ne one
waitingUserQueryNoExclusion(doc, sender, currentRecentPartners) ==
    /\ doc.status = "waiting"
    /\ doc.id # sender

\* The query object of handleSearch, { status: 'waiting', id: { $ne: sender },
\* id: { $nin: currentRecentPartners } }.  An object literal keeps the LAST value
\* of a repeated key, so the $ne condition on id is overwritten by the $nin one.
waitingUserQuery(doc, sender, currentRecentPartners) ==
    /\ doc.status = "waiting"
    /\ doc.id \notin currentRecentPartners

findWaitingUser(coll, sender, currentRecentPartners) ==
    FirstIdx({i \in DOMAIN coll :
                 waitingUserQuery(coll[i], sender, currentRecentPartners)})

\* updateOne(COLLECTION_NAME, { id: id }, { $set: { status: 'waiting', ... } })
setWaiting(coll, id) ==
    LET i == findOneById(coll, id)
    IN  IF i = 0 THEN coll ELSE [coll EXCEPT ![i].status = "waiting"]

\* updateOne(COLLECTION_NAME, { id: id }, { $set: { status: 'chatting', partner },
\*                                          $push: { recentPartners: {partnerId, timestamp} } })
setChatting(coll, id, partner, t) ==
    LET i == findOneById(coll, id)
    IN  IF i = 0 THEN coll
        ELSE [coll EXCEPT ![i].status = "chatting",
                          ![i].partner = partner,
                          ![i].recentPartners = @ \cup {<<partner, t>>}]

\* a reset of the status alone, the partner staying as it is
setIdleKeepsPartner(coll, id) ==
    LET i == findOneById(coll, id)
    IN  IF i = 0 THEN coll
        ELSE [coll EXCEPT ![i].status = "idle"]

\* a stop that deletes the record instead of resetting it
setIdleDeletes(coll, id) ==
    LET keep(doc) == doc.id # id
    IN  SelectSeq(coll, keep)

\* updateOne(COLLECTION_NAME, { id: id }, { $set: { status: 'idle', partner: null } })
setIdle(coll, id) ==
    LET i == findOneById(coll, id)
    IN  IF i = 0 THEN coll
        ELSE [coll EXCEPT ![i].status = "idle", ![i].partner = Null]

newUserRecord(sender) ==
    [id |-> sender, status |-> "waiting", partner |-> Null, recentPartners |-> {}]

\* the list without the filter: every entry excludes, whatever its age
currentRecentPartnersUnfiltered(recentPartners, t) ==
    {e[1] : e \in recentPartners}

\* recentPartners.filter(entry => entry.timestamp > oneHourAgo).map(entry => entry.partnerId)
currentRecentPartners(recentPartners, t) ==
    {e[1] : e \in {x \in recentPartners : x[2] > t - ExclusionWindow}}

----------------------------------------------------------------------------
(* The transport.  down is the set of recipients bot.sendMessage cannot    *)
(* reach while the handler runs: a send to one of them throws.             *)

RECURSIVE Deliver(_, _)
Deliver(msgs, down) ==
    IF msgs = <<>> \/ msgs[1][1] \in down THEN <<>>
    ELSE <<msgs[1]>> \o Deliver(Tail(msgs), down)

Throws(msgs, down) == \E i \in DOMAIN msgs : msgs[i][1] \in down

\* the sends of a try block, then the error notice of its catch block
sendOrCatch(msgs, sender, errorNotice, down) ==
    IF Throws(msgs, down)
    THEN Deliver(msgs, down) \o Deliver(<< <<sender, errorNotice>> >>, down)
    ELSE msgs

----------------------------------------------------------------------------
(* The handlers, as functions of the collection they run against *)

\* a match whose second updateOne is lost: only the searcher's record is updated
pairUpSearcherOnly(coll, sender, waitingUser, t) ==
    setChatting(coll, sender, waitingUser, t)

\* a match whose first updateOne has no $push: the searcher does not record the
\* candidate as a recent partner
setChattingNoPush(coll, id, partner) ==
    LET i == findOneById(coll, id)
    IN  IF i = 0 THEN coll
        ELSE [coll EXCEPT ![i].status = "chatting", ![i].partner = partner]

pairUpSearcherForgets(coll, sender, waitingUser, t) ==
    setChatting(setChattingNoPush(coll, sender, waitingUser), waitingUser, sender, t)

\* the two updateOne calls of a match: the searcher's record, then the candidate's
pairUp(coll, sender, waitingUser, t) ==
    setChatting(setChatting(coll, sender, waitingUser, t), waitingUser, sender, t)

handleSearch(coll, sender, t, down) ==
    LET i == findOneById(coll, sender)
    IN  IF i # 0 /\ coll[i].partner # Null
        THEN [coll |-> coll, match |-> Null,
              log |-> sendOrCatch(<< <<sender, "already_chatting">> >>,
                                  sender, "search_error", down)]
        ELSE
          LET coll1 == IF i # 0 THEN setWaiting(coll, sender)
                                ELSE Append(coll, newUserRecord(sender))
              userRecord == IF i # 0 THEN coll[i] ELSE newUserRecord(sender)
              excl == currentRecentPartners(userRecord.recentPartners, t)
              j == findWaitingUser(coll1, sender, excl)
          IN  IF j # 0
              THEN LET waitingUser == coll1[j].id
                   IN  [coll |-> pairUp(coll1, sender, waitingUser, t),
                        match |-> waitingUser,
                        log |-> sendOrCatch(<< <<sender, "partner_found">>,
                                               <<waitingUser, "partner_found">> >>,
                                            sender, "search_error", down)]
              ELSE [coll |-> coll1, match |-> Null,
                    log |-> sendOrCatch(<< <<sender, "searching">> >>,
                                        sender, "search_error", down)]

\* handleNext without the test of user.partner: a participant that is not in a
\* chat goes on to the search
handleNextUnguarded(coll, sender, t, down) ==
    LET i == findOneById(coll, sender)
    IN  IF i = 0
        THEN [coll |-> coll, match |-> Null,
              log |-> sendOrCatch(<< <<sender, "not_in_chat">> >>,
                                  sender, "next_error", down)]
        ELSE
          LET partnerId == coll[i].partner
          IN  IF partnerId \in down
              THEN [coll |-> coll, match |-> Null,
                    log |-> Deliver(<< <<sender, "next_error">> >>, down)]
              ELSE LET r == handleSearch(setIdle(coll, partnerId), sender, t, down)
                   IN  [coll |-> r.coll, match |-> r.match,
                        log |-> << <<partnerId, "partner_left">> >> \o r.log]

handleNext(coll, sender, t, down) ==
    LET i == findOneById(coll, sender)
    IN  IF i = 0 \/ coll[i].partner = Null
        THEN [coll |-> coll, match |-> Null,
              log |-> sendOrCatch(<< <<sender, "not_in_chat">> >>,
                                  sender, "next_error", down)]
        ELSE
          LET partnerId == coll[i].partner
          IN  IF partnerId \in down
              THEN [coll |-> coll, match |-> Null,
                    log |-> Deliver(<< <<sender, "next_error">> >>, down)]
              ELSE LET r == handleSearch(setIdle(coll, partnerId), sender, t, down)
                   IN  [coll |-> r.coll, match |-> r.match,
                        log |-> << <<partnerId, "partner_left">> >> \o r.log]

handleStop(coll, sender, t, down) ==
    LET i == findOneById(coll, sender)
    IN  IF i = 0
        THEN [coll |-> coll, match |-> Null,
              log |-> sendOrCatch(<< <<sender, "no_session">> >>,
                                  sender, "stop_error", down)]
        ELSE
          LET partnerId == coll[i].partner
          IN  IF partnerId # Null /\ partnerId \in down
              THEN [coll |-> coll, match |-> Null,
                    log |-> Deliver(<< <<sender, "stop_error">> >>, down)]
              ELSE LET coll1 == IF partnerId # Null THEN setIdle(coll, partnerId)
                                                    ELSE coll
                       first == IF partnerId # Null
                                THEN << <<partnerId, "partner_ended">> >> ELSE <<>>
                   IN  [coll |-> setIdle(coll1, sender), match |-> Null,
                        log |-> first \o sendOrCatch(<< <<sender, "stopped">> >>,
                                                     sender, "stop_error", down)]

\* handleSendPP: it reads the sender's record and only sends; ppFails is
\* bot.profilePictureUrl throwing
handleSendPP(coll, sender, down, ppFails) ==
    LET i == findOneById(coll, sender)
    IN  IF i = 0 \/ coll[i].partner = Null
        THEN [coll |-> coll,
              log |-> sendOrCatch(<< <<sender, "not_in_chat">> >>,
                                  sender, "sendpp_error", down)]
        ELSE IF ppFails
        THEN [coll |-> coll,
              log |-> sendOrCatch(<< <<sender, "no_picture">> >>,
                                  sender, "sendpp_error", down)]
        ELSE [coll |-> coll,
              log |-> sendOrCatch(<< <<coll[i].partner, "profile_picture">>,
                                     <<sender, "picture_sent">> >>,
                                  sender, "sendpp_error", down)]

\* a pull with $lte in place of $lt: the entry that is exactly one hour old goes too
pullOldPartnersInclusive(coll, t) ==
    [i \in DOMAIN coll |->
        [coll[i] EXCEPT !.recentPartners =
            {e \in @ : ~(e[2] <= t - ExclusionWindow)}]]

\* updateMany(COLLECTION_NAME, {}, { $pull: { recentPartners: { timestamp: { $lt: oneHourAgo } } } })
pullOldPartners(coll, t) ==
    [i \in DOMAIN coll |->
        [coll[i] EXCEPT !.recentPartners =
            {e \in @ : ~(e[2] < t - ExclusionWindow)}]]

----------------------------------------------------------------------------
(* Reading a participant's record *)

statusOf(coll, id) ==
    LET i == findOneById(coll, id) IN IF i = 0 THEN "none" ELSE coll[i].status

partnerOf(coll, id) ==
    LET i == findOneById(coll, id) IN IF i = 0 THEN Null ELSE coll[i].partner

recentPartnersOf(coll, id) ==
    LET i == findOneById(coll, id) IN IF i = 0 THEN {} ELSE coll[i].recentPartners

----------------------------------------------------------------------------
(* The commands.  Each runs its handler to completion against the store.   *)

TaskIds == 1 .. MaxTasks

\* the participants of the specification of concurrent handlers
AsyncUsers == 1 .. NumAsyncUsers

Free == [pc |-> "free"]

Init ==
    /\ anonymous_chat = <<>>
    /\ now = 0
    /\ sent = <<>>
    /\ tasks = [k \in TaskIds |-> Free]
    /\ message_queue = <<>>
    /\ submitted = {}
    /\ received = {}
    /\ relayed = "none"
    /\ connection = "connecting"

Search(sender, down) ==
    LET r == handleSearch(anonymous_chat, sender, now, down)
    IN  /\ anonymous_chat' = r.coll
        /\ sent' = r.log
        /\ UNCHANGED <<now, tasks>> /\ NoRelay

NextCmd(sender, down) ==
    LET r == handleNext(anonymous_chat, sender, now, down)
    IN  /\ anonymous_chat' = r.coll
        /\ sent' = r.log
        /\ UNCHANGED <<now, tasks>> /\ NoRelay

Stop(sender, down) ==
    LET r == handleStop(anonymous_chat, sender, now, down)
    IN  /\ anonymous_chat' = r.coll
        /\ sent' = r.log
        /\ UNCHANGED <<now, tasks>> /\ NoRelay

\* the hourly timer of initializeCollections
cleanupRecentPartners ==
    /\ anonymous_chat' = pullOldPartners(anonymous_chat, now)
    /\ sent' = <<>>
    /\ UNCHANGED <<now, tasks>> /\ NoRelay

Tick ==
    /\ now < MaxTime
    /\ now' = now + 1
    /\ sent' = <<>>
    /\ UNCHANGED <<anonymous_chat, tasks>> /\ NoRelay

\* Commands arriving one at a time, within one tick of the clock
Next ==
    \/ \E sender \in Users, down \in SUBSET Users : Search(sender, down)
    \/ \E sender \in Users, down \in SUBSET Users : NextCmd(sender, down)
    \/ \E sender \in Users, down \in SUBSET Users : Stop(sender, down)

Spec == Init /\ [][Next]_vars

\* Commands arriving one at a time while the clock runs and the cleanup timer fires
NextClock ==
    \/ \E sender \in ClockUsers, down \in SUBSET ClockUsers : Search(sender, down)
    \/ \E sender \in ClockUsers, down \in SUBSET ClockUsers : NextCmd(sender, down)
    \/ \E sender \in ClockUsers, down \in SUBSET ClockUsers : Stop(sender, down)
    \/ cleanupRecentPartners
    \/ Tick

SpecClock == Init /\ [][NextClock]_vars

----------------------------------------------------------------------------
(* The handlers as concurrent tasks.  Every database call and every         *)
(* sendMessage is an await, where other handlers may run.  A task keeps the *)
(* handler's local variables; a send is taken together with the database    *)
(* call that follows it, since a send reads and writes no record.           *)

Task(pc, sender, existing, recentPartners, other) ==
    [pc |-> pc, sender |-> sender, existing |-> existing,
     recentPartners |-> recentPartners, other |-> other]

\* a new handler takes the lowest free slot
CanStart(k) ==
    /\ tasks[k] = Free
    /\ \A j \in TaskIds : j < k => tasks[j] # Free

\* handleSearch up to the result of findOne({ id: sender }) (lines 58-64)
SearchFind(k, sender, down) ==
    LET i == findOneById(anonymous_chat, sender)
    IN  /\ IF i # 0 /\ anonymous_chat[i].partner # Null
           THEN /\ tasks' = [tasks EXCEPT ![k] = Free]
                /\ sent' = sendOrCatch(<< <<sender, "already_chatting">> >>,
                                       sender, "search_error", down)
           ELSE /\ tasks' = [tasks EXCEPT ![k] =
                      Task("search_upsert", sender, i # 0,
                           IF i # 0 THEN anonymous_chat[i].recentPartners ELSE {},
                           Null)]
                /\ sent' = <<>>
        /\ UNCHANGED <<anonymous_chat, now>> /\ NoRelay

BeginSearch(k, sender, down) == CanStart(k) /\ SearchFind(k, sender, down)

\* updateOne status waiting, or insertOne of the new record (lines 68-85)
SearchUpsert(k) ==
    /\ tasks[k].pc = "search_upsert"
    /\ anonymous_chat' = IF tasks[k].existing
                         THEN setWaiting(anonymous_chat, tasks[k].sender)
                         ELSE Append(anonymous_chat, newUserRecord(tasks[k].sender))
    /\ tasks' = [tasks EXCEPT ![k].pc = "search_scan"]
    /\ sent' = <<>>
    /\ UNCHANGED now /\ NoRelay

\* findOne of a waiting user (lines 88-103), and the searching notice (142-144)
SearchScan(k, down) ==
    /\ tasks[k].pc = "search_scan"
    /\ LET sender == tasks[k].sender
           j == findWaitingUser(anonymous_chat, sender,
                    currentRecentPartners(tasks[k].recentPartners, now))
       IN  IF j # 0
           THEN /\ tasks' = [tasks EXCEPT ![k].pc = "search_update_sender",
                                          ![k].other = anonymous_chat[j].id]
                /\ sent' = <<>>
           ELSE /\ tasks' = [tasks EXCEPT ![k] = Free]
                /\ sent' = sendOrCatch(<< <<sender, "searching">> >>,
                                       sender, "search_error", down)
    /\ UNCHANGED <<anonymous_chat, now>> /\ NoRelay

\* updateOne of the searcher's record (lines 107-118)
SearchUpdateSender(k) ==
    /\ tasks[k].pc = "search_update_sender"
    /\ anonymous_chat' = setChatting(anonymous_chat, tasks[k].sender, tasks[k].other, now)
    /\ tasks' = [tasks EXCEPT ![k].pc = "search_update_partner"]
    /\ sent' = <<>>
    /\ UNCHANGED now /\ NoRelay

\* updateOne of the candidate's record, and the two notices (lines 120-140)
SearchUpdatePartner(k, down) ==
    /\ tasks[k].pc = "search_update_partner"
    /\ anonymous_chat' = setChatting(anonymous_chat, tasks[k].other, tasks[k].sender, now)
    /\ tasks' = [tasks EXCEPT ![k] = Free]
    /\ sent' = sendOrCatch(<< <<tasks[k].sender, "partner_found">>,
                              <<tasks[k].other, "partner_found">> >>,
                           tasks[k].sender, "search_error", down)
    /\ UNCHANGED now /\ NoRelay

\* handleStop up to the result of findOne (lines 202-208)
BeginStop(k, sender, down) ==
    /\ CanStart(k)
    /\ LET i == findOneById(anonymous_chat, sender)
       IN  IF i = 0
           THEN /\ tasks' = [tasks EXCEPT ![k] = Free]
                /\ sent' = sendOrCatch(<< <<sender, "no_session">> >>,
                                       sender, "stop_error", down)
           ELSE /\ tasks' = [tasks EXCEPT ![k] =
                      Task(IF anonymous_chat[i].partner # Null
                           THEN "stop_partner" ELSE "stop_sender",
                           sender, TRUE, {}, anonymous_chat[i].partner)]
                /\ sent' = <<>>
    /\ UNCHANGED <<anonymous_chat, now>> /\ NoRelay

\* the notice to the partner, then updateOne of the partner's record (lines 210-220)
StopPartner(k, down) ==
    /\ tasks[k].pc = "stop_partner"
    /\ IF tasks[k].other \in down
       THEN /\ tasks' = [tasks EXCEPT ![k] = Free]
            /\ sent' = Deliver(<< <<tasks[k].sender, "stop_error">> >>, down)
            /\ UNCHANGED anonymous_chat
       ELSE /\ tasks' = [tasks EXCEPT ![k].pc = "stop_sender"]
            /\ sent' = << <<tasks[k].other, "partner_ended">> >>
            /\ anonymous_chat' = setIdle(anonymous_chat, tasks[k].other)
    /\ UNCHANGED now /\ NoRelay

\* updateOne of the caller's record, then the confirmation (lines 222-229)
StopSender(k, down) ==
    /\ tasks[k].pc = "stop_sender"
    /\ anonymous_chat' = setIdle(anonymous_chat, tasks[k].sender)
    /\ tasks' = [tasks EXCEPT ![k] = Free]
    /\ sent' = sendOrCatch(<< <<tasks[k].sender, "stopped">> >>,
                           tasks[k].sender, "stop_error", down)
    /\ UNCHANGED now /\ NoRelay

\* handleNext up to the result of findOne (lines 162-169)
BeginNext(k, sender, down) ==
    /\ CanStart(k)
    /\ LET i == findOneById(anonymous_chat, sender)
       IN  IF i = 0 \/ anonymous_chat[i].partner = Null
           THEN /\ tasks' = [tasks EXCEPT ![k] = Free]
                /\ sent' = sendOrCatch(<< <<sender, "not_in_chat">> >>,
                                       sender, "next_error", down)
           ELSE /\ tasks' = [tasks EXCEPT ![k] =
                      Task("next_partner", sender, TRUE, {}, anonymous_chat[i].partner)]
                /\ sent' = <<>>
    /\ UNCHANGED <<anonymous_chat, now>> /\ NoRelay

\* the notice to the partner, then updateOne of the partner's record (lines 171-181)
NextPartner(k, down) ==
    /\ tasks[k].pc = "next_partner"
    /\ IF tasks[k].other \in down
       THEN /\ tasks' = [tasks EXCEPT ![k] = Free]
            /\ sent' = Deliver(<< <<tasks[k].sender, "next_error">> >>, down)
            /\ UNCHANGED anonymous_chat
       ELSE /\ tasks' = [tasks EXCEPT ![k].pc = "next_search"]
            /\ sent' = << <<tasks[k].other, "partner_left">> >>
            /\ anonymous_chat' = setIdle(anonymous_chat, tasks[k].other)
    /\ UNCHANGED now /\ NoRelay

\* handleNext calling handleSearch (line 184)
NextSearch(k, down) ==
    /\ tasks[k].pc = "next_search"
    /\ SearchFind(k, tasks[k].sender, down)

NextAsync ==
    \/ \E k \in TaskIds, sender \in AsyncUsers, down \in SUBSET AsyncUsers :
           BeginSearch(k, sender, down)
    \/ \E k \in TaskIds : SearchUpsert(k)
    \/ \E k \in TaskIds, down \in SUBSET AsyncUsers : SearchScan(k, down)
    \/ \E k \in TaskIds : SearchUpdateSender(k)
    \/ \E k \in TaskIds, down \in SUBSET AsyncUsers : SearchUpdatePartner(k, down)
    \/ \E k \in TaskIds, sender \in AsyncUsers, down \in SUBSET AsyncUsers :
           BeginStop(k, sender, down)
    \/ \E k \in TaskIds, down \in SUBSET AsyncUsers : StopPartner(k, down)
    \/ \E k \in TaskIds, down \in SUBSET AsyncUsers : StopSender(k, down)
    \/ \E k \in TaskIds, sender \in AsyncUsers, down \in SUBSET AsyncUsers :
           BeginNext(k, sender, down)
    \/ \E k \in TaskIds, down \in SUBSET AsyncUsers : NextPartner(k, down)
    \/ \E k \in TaskIds, down \in SUBSET AsyncUsers : NextSearch(k, down)

\* Handlers running concurrently, interleaved at their awaits, within one tick
SpecAsync == Init /\ [][NextAsync]_vars

NumRaceUsers == 3

\* the participants of the specification of racing searches
RaceUsers == 1 .. NumRaceUsers

\* the participants whose searches run concurrently; participant 1 is the one
\* they compete for
Racers == RaceUsers \ {1}

\* no handler is in flight
Quiet == \A k \in TaskIds : tasks[k] = Free

\* Searches of the racers running concurrently, interleaved at their awaits,
\* with the transport working; the search of participant 1 and the stop
\* commands run while no other handler is in flight
NextRace ==
    \/ \E k \in TaskIds, sender \in Racers : BeginSearch(k, sender, {})
    \/ \E k \in TaskIds : SearchUpsert(k)
    \/ \E k \in TaskIds : SearchScan(k, {})
    \/ \E k \in TaskIds : SearchUpdateSender(k)
    \/ \E k \in TaskIds : SearchUpdatePartner(k, {})
    \/ Quiet /\ Search(1, {})
    \/ Quiet /\ \E sender \in RaceUsers : Stop(sender, {})

SpecRace == Init /\ [][NextRace]_vars

\* the updateOne of the candidate's record throws (lines 120-131): the catch of
\* handleSearch sends the error notice and the handler ends (146-151)
SearchUpdatePartnerThrows(k, down) ==
    /\ tasks[k].pc = "search_update_partner"
    /\ tasks' = [tasks EXCEPT ![k] = Free]
    /\ sent' = Deliver(<< <<tasks[k].sender, "search_error">> >>, down)
    /\ UNCHANGED <<anonymous_chat, now>> /\ NoRelay

\* Searches and stops one handler at a time, with the transport working, where
\* the store may fail at the second write of a match
NextFail ==
    \/ Quiet /\ \E k \in TaskIds, sender \in RaceUsers : BeginSearch(k, sender, {})
    \/ \E k \in TaskIds : SearchUpsert(k)
    \/ \E k \in TaskIds : SearchScan(k, {})
    \/ \E k \in TaskIds : SearchUpdateSender(k)
    \/ \E k \in TaskIds : SearchUpdatePartner(k, {})
    \/ \E k \in TaskIds : SearchUpdatePartnerThrows(k, {})
    \/ Quiet /\ \E sender \in RaceUsers : Stop(sender, {})

SpecFail == Init /\ [][NextFail]_vars

----------------------------------------------------------------------------
(* The relay.  A message is known by its id (msg.key.id) and by the first   *)
(* key of msg.message, which selects the branch of relayMessage.  A queued  *)
(* document has exactly the fields addToMessageQueue is given: it has no    *)
(* status, retries or mediaBuffer field.  Its _id is generated by the       *)
(* store; the model uses the id of the message, of which each call of       *)
(* relayMessage inserts at most one document.                               *)

NumRelayUsers == 2
MaxMsgs == 1

\* retries: { $lt: 3 }
MaxRetries == 3

RelayUsers == 1 .. NumRelayUsers

MsgIds == 1 .. MaxMsgs

\* the branches that download the media and send the buffer inside their own try
MediaKinds == {"imageMessage", "videoMessage", "audioMessage",
               "stickerMessage", "documentMessage"}

\* the branches that return true without sending anything
SkippedKinds == {"reactionMessage", "protocolMessage"}

\* the branches that send the content itself
ContentKinds == {"conversation", "extendedTextMessage", "contactMessage",
                 "contactsArrayMessage", "locationMessage"}

\* a type no branch of relayMessage names, which falls to the final else
UnsupportedKind == "pollCreationMessage"

\* the message types the model submits
MessageKinds == {"conversation", "imageMessage", "reactionMessage", UnsupportedKind}

\* the branches that send a text of the message itself
TextKinds == {"conversation", "extendedTextMessage"}

\* messageContent.conversation, or messageContent.extendedTextMessage.text
Texts == {"hello", "bye"}

\* the texts a message of this kind may carry; the other kinds carry none
TextsOf(kind) == IF kind \in TextKinds THEN Texts ELSE {""}

\* messageData.type given to queueMessageOnFailure by the catch of a media branch
mediaDataType(kind) ==
    CASE kind = "imageMessage" -> "image"
      [] kind = "videoMessage" -> "video"
      [] kind = "audioMessage" -> "audio"
      [] kind = "documentMessage" -> "document"
      [] OTHER -> "text"

\* messageData built by the outer catch (deliveryError): type 'text' for every
\* kind, with the text itself for the two text kinds and a label for the others
deliveryErrorData(msg) ==
    [type |-> "text",
     content |-> IF msg.kind \in TextKinds THEN msg.text ELSE "label"]

\* a relay that sends a fixed text in place of the sender's
forwardedContentLabel(msg) == "forward"

\* what the branch of a kind that is sent as it is gives to sendMessage: the text
\* itself, { text: messageContent.conversation } or
\* { text: messageContent.extendedTextMessage.text }, or the contact or location
forwardedContent(msg) == IF msg.kind \in TextKinds THEN msg.text ELSE "forward"

\* queueMessageOnFailure with a catch that tells the sender of the error
queueMessageOnFailureReportsError(queue, sender, partnerId, msg, messageData, down, dbFails) ==
    IF dbFails
    THEN [queue |-> queue, log |-> Deliver(<< <<sender, "error">> >>, down)]
    ELSE [queue |-> Append(queue, [_id |-> msg.id,
                                   sender |-> sender,
                                   recipient |-> partnerId,
                                   messageData |-> messageData,
                                   messageType |-> msg.kind,
                                   originalMessageId |-> msg.id]),
          log |-> Deliver(<< <<sender, "deferred">> >>, down)]

\* queueMessageOnFailure: addToMessageQueue, then the notice to the sender; an
\* error of either is caught and logged
queueMessageOnFailure(queue, sender, partnerId, msg, messageData, down, dbFails) ==
    IF dbFails
    THEN [queue |-> queue, log |-> <<>>]
    ELSE [queue |-> Append(queue, [_id |-> msg.id,
                                   sender |-> sender,
                                   recipient |-> partnerId,
                                   messageData |-> messageData,
                                   messageType |-> msg.kind,
                                   originalMessageId |-> msg.id]),
          log |-> Deliver(<< <<sender, "deferred">> >>, down)]

\* the test with only its first condition, !user
senderHasNoRecord(coll, i) == i = 0

\* !user || !user.partner || user.status !== 'chatting', for the document at
\* index i (0 for null)
senderNotInChat(coll, i) ==
    i = 0 \/ coll[i].partner = Null \/ coll[i].status # "chatting"

\* relayMessage: what it returns, the queue it leaves, what it sent, and what
\* became of the message
relayMessage(coll, queue, sender, msg, down, mediaFails, dbFails) ==
    LET i == findOneById(coll, sender)
    IN  IF senderNotInChat(coll, i)
        THEN [returned |-> FALSE, queue |-> queue, log |-> <<>>,
              outcome |-> "not_in_chat"]
        ELSE
          LET partnerId == coll[i].partner
              queued(data) ==
                  LET q == queueMessageOnFailure(queue, sender, partnerId, msg,
                                                 data, down, dbFails)
                  IN  [returned |-> TRUE, queue |-> q.queue, log |-> q.log,
                       outcome |-> IF dbFails THEN "lost" ELSE "queued"]
          IN  IF msg.kind \in SkippedKinds
              THEN [returned |-> TRUE, queue |-> queue, log |-> <<>>,
                    outcome |-> "skipped"]
              ELSE IF msg.kind \in MediaKinds
              THEN IF mediaFails \/ partnerId \in down
                   THEN queued([type |-> mediaDataType(msg.kind), content |-> "label"])
                   ELSE [returned |-> TRUE, queue |-> queue,
                         log |-> << <<partnerId, "forward">> >>,
                         outcome |-> "forwarded"]
              ELSE IF partnerId \in down
                   THEN queued(deliveryErrorData(msg))
                   ELSE IF msg.kind \in ContentKinds
                        THEN [returned |-> TRUE, queue |-> queue,
                              log |-> << <<partnerId, forwardedContent(msg)>> >>,
                              outcome |-> "forwarded"]
                        ELSE [returned |-> TRUE, queue |-> queue,
                              log |-> << <<partnerId, "cannot_forward">> >>,
                              outcome |-> "placeholder"]

\* database.findOne: the index of the document, 0 (null) when there is none and
\* also when the read throws, the error being logged and swallowed
findOne(coll, id, readFails) == IF readFails THEN 0 ELSE findOneById(coll, id)

\* relayMessage with the read of the sender's record working or failing
relayMessageOnRead(coll, queue, sender, msg, down, mediaFails, dbFails, readFails) ==
    IF senderNotInChat(coll, findOne(coll, sender, readFails))
    THEN [returned |-> FALSE, queue |-> queue, log |-> <<>>,
          outcome |-> "not_in_chat"]
    ELSE relayMessage(coll, queue, sender, msg, down, mediaFails, dbFails)

\* handleStop with the read of the sender's record working or failing
handleStopOnRead(coll, sender, t, down, readFails) ==
    IF findOne(coll, sender, readFails) = 0
    THEN [coll |-> coll, match |-> Null,
          log |-> sendOrCatch(<< <<sender, "no_session">> >>,
                              sender, "stop_error", down)]
    ELSE handleStop(coll, sender, t, down)

hasField(doc, f) == f \in DOMAIN doc

\* the filter of getPendingMessages:
\* { $or: [ { status: 'pending' }, { status: 'failed', retries: { $lt: 3 } } ] }
pendingQuery(doc) ==
    /\ hasField(doc, "status")
    /\ \/ doc.status = "pending"
       \/ doc.status = "failed" /\ hasField(doc, "retries") /\ doc.retries < MaxRetries

\* getPendingMessages returns [] when the find throws
getPendingMessages(queue, dbFails) ==
    IF dbFails THEN <<>> ELSE SelectSeq(queue, pendingQuery)

\* the loop body with the sender's identifier put into what the recipient gets
deliverQueuedNamesSender(coll, queuedMsg, down) ==
    LET i == findOneById(coll, queuedMsg.sender)
    IN  IF i # 0 /\ coll[i].status = "chatting" /\ coll[i].partner = queuedMsg.recipient
        THEN IF queuedMsg.recipient \in down
             THEN [ids |-> {}, log |-> <<>>, delivered |-> FALSE]
             ELSE IF queuedMsg.sender \in down
             THEN [ids |-> {}, delivered |-> TRUE,
                   log |-> << <<queuedMsg.recipient, ToString(queuedMsg.sender)>> >>]
             ELSE [ids |-> {queuedMsg._id}, delivered |-> TRUE,
                   log |-> << <<queuedMsg.recipient, ToString(queuedMsg.sender)>>,
                              <<queuedMsg.sender, "queued_delivered">> >>]
        ELSE [ids |-> {queuedMsg._id}, delivered |-> FALSE,
              log |-> Deliver(<< <<queuedMsg.sender, "queued_discarded">> >>, down)]

\* The body of the loop of processMessageQueue for one queued message: the ids it
\* pushes to deliveredMessageIds, what it sends, and whether the recipient got
\* the message.  No mediaBuffer is ever stored, so every type is sent as the
\* text messageData.content with the delivered-after-connection-issue note.
deliverQueued(coll, queuedMsg, down) ==
    LET i == findOneById(coll, queuedMsg.sender)
    IN  IF i # 0 /\ coll[i].status = "chatting" /\ coll[i].partner = queuedMsg.recipient
        THEN IF queuedMsg.recipient \in down
             THEN [ids |-> {}, log |-> <<>>, delivered |-> FALSE]
             ELSE IF queuedMsg.sender \in down
             THEN [ids |-> {}, delivered |-> TRUE,
                   log |-> << <<queuedMsg.recipient, "delivered_late">> >>]
             ELSE [ids |-> {queuedMsg._id}, delivered |-> TRUE,
                   log |-> << <<queuedMsg.recipient, "delivered_late">>,
                              <<queuedMsg.sender, "queued_delivered">> >>]
        ELSE [ids |-> {queuedMsg._id}, delivered |-> FALSE,
              log |-> Deliver(<< <<queuedMsg.sender, "queued_discarded">> >>, down)]

RECURSIVE processPending(_, _, _)
processPending(coll, pendingMessages, down) ==
    IF pendingMessages = <<>>
    THEN [ids |-> {}, log |-> <<>>, got |-> {}]
    ELSE LET r == deliverQueued(coll, pendingMessages[1], down)
             rest == processPending(coll, Tail(pendingMessages), down)
         IN  [ids |-> r.ids \cup rest.ids,
              log |-> r.log \o rest.log,
              got |-> (IF r.delivered THEN {pendingMessages[1].originalMessageId}
                                      ELSE {}) \cup rest.got]

\* deleteMany({ _id: { $in: messageIds } })
clearDeliveredMessages(queue, messageIds) ==
    SelectSeq(queue, LAMBDA d : d._id \notin messageIds)

\* processMessageQueue from the result of getPendingMessages on: the loop, then
\* clearDeliveredMessages, a throw of which is caught and leaves the queue as it
\* was.  The loop writes nothing to the queued documents.
processPendingMessages(coll, queue, pendingMessages, down, clearFails) ==
    LET r == processPending(coll, pendingMessages, down)
    IN  [queue |-> IF r.ids # {} /\ ~clearFails
                   THEN clearDeliveredMessages(queue, r.ids) ELSE queue,
         log |-> r.log, got |-> r.got]

processMessageQueue(coll, queue, down, findFails, clearFails) ==
    processPendingMessages(coll, queue, getPendingMessages(queue, findFails),
                           down, clearFails)

\* a message arriving from sender that is not a command (src/bot.js)
Relay(sender, kind, text, down, mediaFails, dbFails) ==
    LET id == Cardinality(submitted) + 1
        r == relayMessage(anonymous_chat, message_queue, sender,
                          [id |-> id, kind |-> kind, text |-> text],
                          down, mediaFails, dbFails)
    IN  /\ r.outcome # "not_in_chat" => id <= MaxMsgs
        /\ message_queue' = r.queue
        /\ sent' = r.log
        /\ submitted' = IF r.outcome = "not_in_chat" THEN submitted
                        ELSE submitted \cup {id}
        /\ received' = IF r.outcome = "forwarded" THEN received \cup {id}
                       ELSE received
        /\ relayed' = IF r.returned THEN "true" ELSE "false"
        /\ UNCHANGED <<anonymous_chat, now, tasks, connection>>

\* the connection opening (src/bot.js): one pass over the queue
Drain(down, findFails, clearFails) ==
    LET r == processMessageQueue(anonymous_chat, message_queue, down,
                                 findFails, clearFails)
    IN  /\ message_queue' = r.queue
        /\ sent' = r.log
        /\ received' = received \cup r.got
        /\ relayed' = "none"
        /\ UNCHANGED <<anonymous_chat, now, tasks, submitted, connection>>

\* Commands, messages and connection openings arriving one at a time
NextRelay ==
    \/ \E sender \in RelayUsers, down \in SUBSET RelayUsers : Search(sender, down)
    \/ \E sender \in RelayUsers, down \in SUBSET RelayUsers : NextCmd(sender, down)
    \/ \E sender \in RelayUsers, down \in SUBSET RelayUsers : Stop(sender, down)
    \/ \E sender \in RelayUsers, kind \in MessageKinds, down \in SUBSET RelayUsers,
          mediaFails \in BOOLEAN, dbFails \in BOOLEAN :
           \E text \in TextsOf(kind) :
               Relay(sender, kind, text, down, mediaFails, dbFails)
    \/ \E down \in SUBSET RelayUsers, findFails \in BOOLEAN, clearFails \in BOOLEAN :
           Drain(down, findFails, clearFails)

SpecRelay == Init /\ [][NextRelay]_vars

----------------------------------------------------------------------------
(* Every operation on the participant records *)

SendPP(sender, down, ppFails) ==
    LET r == handleSendPP(anonymous_chat, sender, down, ppFails)
    IN  /\ anonymous_chat' = r.coll
        /\ sent' = r.log
        /\ UNCHANGED <<now, tasks>> /\ NoRelay

\* Commands, messages, connection openings and the cleanup timer, one at a time
NextAll ==
    \/ \E sender \in RelayUsers, down \in SUBSET RelayUsers : Search(sender, down)
    \/ \E sender \in RelayUsers, down \in SUBSET RelayUsers : NextCmd(sender, down)
    \/ \E sender \in RelayUsers, down \in SUBSET RelayUsers : Stop(sender, down)
    \/ \E sender \in RelayUsers, down \in SUBSET RelayUsers, ppFails \in BOOLEAN :
           SendPP(sender, down, ppFails)
    \/ \E sender \in RelayUsers, kind \in MessageKinds, down \in SUBSET RelayUsers,
          mediaFails \in BOOLEAN, dbFails \in BOOLEAN :
           \E text \in TextsOf(kind) :
               Relay(sender, kind, text, down, mediaFails, dbFails)
    \/ \E down \in SUBSET RelayUsers, findFails \in BOOLEAN, clearFails \in BOOLEAN :
           Drain(down, findFails, clearFails)
    \/ cleanupRecentPartners

SpecAll == Init /\ [][NextAll]_vars

----------------------------------------------------------------------------
(* The connection to the transport *)

\* connection.update with connection "open": initializeCollections, which
\* starts the hourly cleanup timer, then one pass of processMessageQueue
ConnectionOpen(down, findFails, clearFails) ==
    LET r == processMessageQueue(anonymous_chat, message_queue, down,
                                 findFails, clearFails)
    IN  /\ connection # "open"
        /\ connection' = "open"
        /\ message_queue' = r.queue
        /\ sent' = r.log
        /\ received' = received \cup r.got
        /\ relayed' = "none"
        /\ UNCHANGED <<anonymous_chat, now, tasks, submitted>>

\* connection.update with connection "close": a reconnect is scheduled, no
\* collection is touched
ConnectionClose ==
    /\ connection = "open"
    /\ connection' = "close"
    /\ sent' = <<>>
    /\ relayed' = "none"
    /\ UNCHANGED <<anonymous_chat, now, tasks, message_queue, submitted, received>>

\* the interval set by initializeCollections, the only one of the program,
\* which runs from the first opening of the connection on
CleanupTimer == connection # "connecting" /\ cleanupRecentPartners

\* The connection opening and closing, commands and messages arriving while it
\* is open, and the cleanup timer
NextConn ==
    \/ \E down \in SUBSET RelayUsers, findFails \in BOOLEAN, clearFails \in BOOLEAN :
           ConnectionOpen(down, findFails, clearFails)
    \/ ConnectionClose
    \/ connection = "open"
           /\ \E sender \in RelayUsers, down \in SUBSET RelayUsers : Search(sender, down)
    \/ connection = "open"
           /\ \E sender \in RelayUsers, down \in SUBSET RelayUsers : Stop(sender, down)
    \/ connection = "open"
           /\ \E sender \in RelayUsers, kind \in MessageKinds,
                 down \in SUBSET RelayUsers, mediaFails \in BOOLEAN,
                 dbFails \in BOOLEAN :
                  \E text \in TextsOf(kind) :
                      Relay(sender, kind, text, down, mediaFails, dbFails)
    \/ CleanupTimer

\* the timer fires again and again; nothing else of the program is scheduled
SpecConn == Init /\ [][NextConn]_vars /\ WF_vars(CleanupTimer)

----------------------------------------------------------------------------
(* Properties of the matchmaker *)

Docs(coll) == {coll[i] : i \in DOMAIN coll}

WaitingIds(coll) == {d.id : d \in {x \in Docs(coll) : x.status = "waiting"}}

Chatting(coll, a, b) == statusOf(coll, a) = "chatting" /\ partnerOf(coll, a) = b

IdleAlone(coll, a) == statusOf(coll, a) = "idle" /\ partnerOf(coll, a) = Null

\* C1: pairing is symmetric: whenever a participant is chatting with partner b,
\* b is chatting with that participant as its partner.
PairingSymmetric ==
    \A d \in Docs(anonymous_chat) :
        (d.status = "chatting" /\ d.partner # Null)
            => Chatting(anonymous_chat, d.partner, d.id)

\* C2: in every reachable state, under any interleaving of the handlers, a
\* record's partner is non-null if and only if its status is 'chatting'.
PartnerIffChatting ==
    \A d \in Docs(anonymous_chat) : d.partner # Null <=> d.status = "chatting"

\* C3: no participant is ever its own partner.
NoSelfPartner ==
    \A d \in Docs(anonymous_chat) : d.partner # d.id

\* C4: after next(a) by a participant a chatting with another participant b, with
\* the transport working, b is idle without partner and a is either waiting
\* without partner or chatting with a new partner, never still partnered with b.
NextLeavesOldPartner ==
    [][\A a, b \in Users :
          (a # b /\ Chatting(anonymous_chat, a, b) /\ NextCmd(a, {}))
              => /\ IdleAlone(anonymous_chat', b)
                 /\ partnerOf(anonymous_chat', a) # b
                 /\ \/ /\ statusOf(anonymous_chat', a) = "waiting"
                       /\ partnerOf(anonymous_chat', a) = Null
                    \/ /\ statusOf(anonymous_chat', a) = "chatting"
                       /\ partnerOf(anonymous_chat', a) # Null]_vars

\* what stop(a) must leave behind, r being what handleStop returns: a idle
\* without partner and, if a had a partner b, b idle without partner and notified
\* that the chat ended
StopOutcome(a, r) ==
    LET b == partnerOf(anonymous_chat, a)
    IN  /\ IdleAlone(r.coll, a)
        /\ b # Null => /\ IdleAlone(r.coll, b)
                       /\ \E k \in DOMAIN r.log : r.log[k] = <<b, "partner_ended">>

\* C5 as stated: a stop(a) issued in any reachable state by a participant with a
\* record (idle, waiting, or chatting with another participant b) always ends
\* with a idle without partner and, if a had a partner b, with b idle without
\* partner and notified.
StopAlwaysResets ==
    \A a \in Users, down \in SUBSET Users :
        (statusOf(anonymous_chat, a) # "none" /\ partnerOf(anonymous_chat, a) # a)
            => StopOutcome(a, handleStop(anonymous_chat, a, now, down))

\* What handleStop does guarantee (C5 restricted to a delivered notice): a
\* stop(a) by a participant with a record ends with a idle without partner and,
\* if a had a partner b, with b idle without partner and notified, whenever the
\* transport delivers the partner-ended notice to b; when that send throws, the
\* catch block is reached before any update and no participant record changes.
StopResetsWhenPartnerNotified ==
    \A a \in Users, down \in SUBSET Users :
        LET r == handleStop(anonymous_chat, a, now, down)
        IN  statusOf(anonymous_chat, a) # "none"
                => IF partnerOf(anonymous_chat, a) \in down
                   THEN r.coll = anonymous_chat
                   ELSE StopOutcome(a, r)

\* a stop that ended a chat between two distinct participants, both notified
StopEndedChat ==
    \E a, b \in Users :
        /\ a # b
        /\ sent = << <<b, "partner_ended">>, <<a, "stopped">> >>
        /\ IdleAlone(anonymous_chat, a)
        /\ IdleAlone(anonymous_chat, b)

\* C6: a search by a, issued in any reachable state, that finds a waiting
\* candidate b leaves both records chatting and naming each other as partner.
MatchCrossReferences ==
    \A a \in Users, down \in SUBSET Users :
        LET r == handleSearch(anonymous_chat, a, now, down)
        IN  r.match # Null
                => /\ Chatting(r.coll, a, r.match)
                   /\ Chatting(r.coll, r.match, a)

\* a search that matched two distinct participants
MatchedPair ==
    \E a, b \in Users :
        /\ a # b
        /\ sent = << <<a, "partner_found">>, <<b, "partner_found">> >>
        /\ Chatting(anonymous_chat, a, b)
        /\ Chatting(anonymous_chat, b, a)

\* C7: when a is the only waiting participant and another participant b, not
\* chatting and without a in its unexpired recentPartners, searches, b is paired
\* with a: both chatting, each the other's partner, and each gets exactly one
\* partner-found notice.
SoleWaitingIsMatched ==
    [][\A a, b \in Users :
          ( /\ a # b
            /\ WaitingIds(anonymous_chat) = {a}
            /\ partnerOf(anonymous_chat, b) = Null
            /\ a \notin currentRecentPartners(recentPartnersOf(anonymous_chat, b), now)
            /\ Search(b, {}) )
              => /\ Chatting(anonymous_chat', a, b)
                 /\ Chatting(anonymous_chat', b, a)
                 /\ sent' = << <<b, "partner_found">>, <<a, "partner_found">> >>]_vars

\* C8: when a searches while no other participant is waiting, a ends waiting
\* without partner and receives a searching notice and no partner-found notice.
LoneSearchWaits ==
    [][\A a \in Users :
          ( /\ WaitingIds(anonymous_chat) \subseteq {a}
            /\ partnerOf(anonymous_chat, a) = Null
            /\ Search(a, {}) )
              => /\ statusOf(anonymous_chat', a) = "waiting"
                 /\ partnerOf(anonymous_chat', a) = Null
                 /\ sent' = << <<a, "searching">> >>]_vars

\* C9: search(a) never selects a participant named by an entry of a's
\* recentPartners whose timestamp is inside the exclusion window at that time.
SearchAvoidsRecentPartners ==
    \A a \in Users, down \in SUBSET Users :
        LET r == handleSearch(anonymous_chat, a, now, down)
        IN  r.match # Null
                => r.match \notin currentRecentPartners(
                                      recentPartnersOf(anonymous_chat, a), now)

\* a search that left the caller waiting although a recent partner was waiting
RecentPartnerPassedOver ==
    \E a, b \in Users :
        /\ a # b
        /\ sent = << <<a, "searching">> >>
        /\ statusOf(anonymous_chat, a) = "waiting"
        /\ statusOf(anonymous_chat, b) = "waiting"
        /\ b \in currentRecentPartners(recentPartnersOf(anonymous_chat, a), now)

SearchWhileWaitingChangesNothing ==
    \A a \in ClockUsers, down \in SUBSET ClockUsers :
        LET r == handleSearch(anonymous_chat, a, now, down)
        IN  statusOf(anonymous_chat, a) = "waiting"
                => /\ r.coll = anonymous_chat
                   /\ r.match = Null
                   /\ (down = {} => \E k \in DOMAIN r.log : r.log[k][1] = a)

\* the result of a command that only answered its caller
OnlyAnswersCaller(r, a) ==
    /\ r.coll = anonymous_chat
    /\ r.match = Null
    /\ \A k \in DOMAIN r.log : r.log[k][1] = a

\* the notice of a user error, delivered
UserErrorReply(log) ==
    \E a \in RelayUsers :
        log \in { << <<a, "already_chatting">> >>, << <<a, "not_in_chat">> >>,
                  << <<a, "no_session">> >> }

UserErrorsAnswerCaller ==
    \A a \in RelayUsers, down \in SUBSET RelayUsers :
        /\ statusOf(anonymous_chat, a) = "chatting"
               => OnlyAnswersCaller(handleSearch(anonymous_chat, a, now, down), a)
        /\ statusOf(anonymous_chat, a) # "chatting"
               => OnlyAnswersCaller(handleNext(anonymous_chat, a, now, down), a)
        /\ statusOf(anonymous_chat, a) = "none"
               => OnlyAnswersCaller(handleStop(anonymous_chat, a, now, down), a)

\* C12: user-error commands leave all state unchanged: a search by a participant
\* that is chatting, a next by a participant that is not chatting and a stop by
\* a participant without record send nothing but notices to the caller and
\* change no participant record, create none, and change no queue entry.
UserErrorsChangeNothing ==
    /\ []UserErrorsAnswerCaller
    /\ [][UserErrorReply(sent') => UNCHANGED <<anonymous_chat, message_queue>>]_vars

\* a user error was answered while a message sits in the queue
UserErrorAnsweredWithQueue ==
    /\ UserErrorReply(sent)
    /\ message_queue # <<>>

----------------------------------------------------------------------------
(* Properties of the relay *)

\* the message the next call of relayMessage is given
NewMsg(kind) ==
    [id |-> Cardinality(submitted) + 1, kind |-> kind,
     text |-> CHOOSE text \in TextsOf(kind) : TRUE]

\* a has an active partner, in the sense of the first test of relayMessage
InChat(coll, a) == statusOf(coll, a) = "chatting" /\ partnerOf(coll, a) # Null

\* the immediate forward of a message of this kind from a fails: the download of
\* the media or the send to the partner throws
ForwardFails(coll, a, kind, down, mediaFails) ==
    /\ InChat(coll, a)
    /\ kind \notin SkippedKinds
    /\ \/ partnerOf(coll, a) \in down
       \/ kind \in MediaKinds /\ mediaFails

\* the documents of the queue made for message id
QueuedFor(queue, id) == {i \in DOMAIN queue : queue[i].originalMessageId = id}

\* C13: every relay attempt whose immediate forward fails inserts exactly one
\* Queued Message carrying status 'pending' and retries 0, and the sender
\* receives a deferred-delivery notice.
RelayFailureQueuesPending ==
    \A a \in RelayUsers, kind \in MessageKinds, down \in SUBSET RelayUsers,
       mediaFails \in BOOLEAN, dbFails \in BOOLEAN :
        LET m == NewMsg(kind)
            r == relayMessage(anonymous_chat, message_queue, a, m,
                              down, mediaFails, dbFails)
        IN  (ForwardFails(anonymous_chat, a, kind, down, mediaFails)
             /\ partnerOf(anonymous_chat, a) # a)
                => /\ Cardinality(QueuedFor(r.queue, m.id)) = 1
                   /\ \A i \in QueuedFor(r.queue, m.id) :
                          /\ hasField(r.queue[i], "status")
                          /\ r.queue[i].status = "pending"
                          /\ hasField(r.queue[i], "retries")
                          /\ r.queue[i].retries = 0
                   /\ \E k \in DOMAIN r.log : r.log[k] = <<a, "deferred">>

\* the connection opens while the database and the transport work
DrainWorking == Drain({}, FALSE, FALSE)

\* the connection opens while the transport throws
DrainFailing == \E down \in (SUBSET RelayUsers) \ {{}} : Drain(down, FALSE, FALSE)

\* SpecRelay with the queue drained again and again, by passes on which the
\* transport works and by passes on which it throws
SpecRelayFair == SpecRelay /\ WF_vars(DrainWorking) /\ WF_vars(DrainFailing)

MutuallyPaired(coll, a, b) == Chatting(coll, a, b) /\ Chatting(coll, b, a)

\* message id, of a kind relayMessage forwards, was submitted by a to its partner
\* b, its forward failed and it sits in the queue
Queued(id, a, b) ==
    /\ id \in submitted
    /\ \E i \in DOMAIN message_queue :
           /\ message_queue[i].originalMessageId = id
           /\ message_queue[i].sender = a
           /\ message_queue[i].recipient = b
           /\ message_queue[i].messageType \in ContentKinds \cup MediaKinds

\* C14: at-least-once delivery: every message a chatting participant a submits
\* to the relay is eventually delivered to its partner b, unless the two stop
\* being paired, when the queue keeps being drained by passes on which the
\* transport and the database work.  Stated for the submitted messages whose
\* immediate forward failed and which were captured in the queue; the others
\* were delivered by the call itself.
AtLeastOnceDelivery ==
    \A id \in MsgIds, a \in RelayUsers, b \in RelayUsers :
        (Queued(id, a, b) /\ a # b)
            ~> (id \in received \/ ~MutuallyPaired(anonymous_chat, a, b))

\* relayMessage put something through to b for the message: the message itself
\* or the text that stands for a type it cannot forward
SentTo(r, b) ==
    \E k \in DOMAIN r.log :
        /\ r.log[k][1] = b
        /\ r.log[k][2] \in {"forward", "cannot_forward"} \cup Texts

\* C15: whenever relay returns true, the message was either sent to the sender's
\* partner through the transport or a Queued Message for it exists in the queue
\* store; relay returns false only when the sender has no active partner or the
\* content is unsupported.
RelayTrueMeansSentOrQueued ==
    \A a \in RelayUsers, kind \in MessageKinds, down \in SUBSET RelayUsers,
       mediaFails \in BOOLEAN, dbFails \in BOOLEAN :
        LET m == NewMsg(kind)
            r == relayMessage(anonymous_chat, message_queue, a, m,
                              down, mediaFails, dbFails)
        IN  partnerOf(anonymous_chat, a) # a
                => /\ r.returned
                          => \/ SentTo(r, partnerOf(anonymous_chat, a))
                             \/ QueuedFor(r.queue, m.id) # {}
                   /\ ~r.returned
                          => \/ ~InChat(anonymous_chat, a)
                             \/ kind = UnsupportedKind

\* C16: if a and b are chatting and the transport throws while forwarding an
\* image sent by a, a Queued Message with messageType 'image' and retries 0 is
\* created and a gets a deferred notice; on the next drain with the transport
\* succeeding, that message is delivered to b with the
\* delivered-after-connection-issue annotation and is marked delivered.
FailedImageIsQueuedAndDrained ==
    \A a \in RelayUsers, b \in RelayUsers :
        LET m == NewMsg("imageMessage")
            r == relayMessage(anonymous_chat, message_queue, a, m,
                              {b}, FALSE, FALSE)
            d == processMessageQueue(anonymous_chat, r.queue, {}, FALSE, FALSE)
        IN  (a # b /\ MutuallyPaired(anonymous_chat, a, b))
                => /\ \E i \in QueuedFor(r.queue, m.id) :
                          /\ r.queue[i].messageType = "image"
                          /\ hasField(r.queue[i], "retries")
                          /\ r.queue[i].retries = 0
                   /\ \E k \in DOMAIN r.log : r.log[k] = <<a, "deferred">>
                   /\ \E k \in DOMAIN d.log : d.log[k] = <<b, "delivered_late">>
                   /\ \E i \in QueuedFor(d.queue, m.id) :
                          /\ hasField(d.queue[i], "status")
                          /\ d.queue[i].status = "delivered"

retriesOf(doc) == IF hasField(doc, "retries") THEN doc.retries ELSE 0

\* the document of the queue with this _id
DocsWithId(queue, id) == {queue[i] : i \in {j \in DOMAIN queue : queue[j]._id = id}}

FailedPermanent(id) ==
    \E i \in DOMAIN message_queue :
        /\ message_queue[i].originalMessageId = id
        /\ hasField(message_queue[i], "status")
        /\ message_queue[i].status = "failed_permanent"

\* C19: a Queued Message whose delivery keeps failing while sender and recipient
\* stay paired eventually transitions to 'failed_permanent'.
FailingMessageBecomesPermanent ==
    \A id \in MsgIds, a \in RelayUsers, b \in RelayUsers :
        (Queued(id, a, b) /\ a # b)
            ~> \/ FailedPermanent(id)
               \/ id \in received
               \/ ~MutuallyPaired(anonymous_chat, a, b)

TextIsForwardedVerbatim ==
    \A a \in RelayUsers, b \in RelayUsers, text \in Texts, down \in SUBSET RelayUsers,
       mediaFails \in BOOLEAN, dbFails \in BOOLEAN :
        LET m == [id |-> Cardinality(submitted) + 1, kind |-> "conversation",
                  text |-> text]
            r == relayMessage(anonymous_chat, message_queue, a, m,
                              down, mediaFails, dbFails)
        IN  (a # b /\ MutuallyPaired(anonymous_chat, a, b) /\ b \notin down)
                => /\ r.returned
                   /\ r.log = << <<b, text>> >>
                   /\ r.queue = message_queue

\* a text was relayed between two paired participants
TextWasForwarded ==
    \E a \in RelayUsers, b \in RelayUsers, text \in Texts :
        /\ a # b
        /\ MutuallyPaired(anonymous_chat, a, b)
        /\ relayed = "true"
        /\ sent = << <<b, text>> >>
        /\ message_queue = <<>>

\* relayMessage called for a sender without active partner does nothing
RelayOutsideChatDoesNothing ==
    \A a \in RelayUsers, kind \in MessageKinds, down \in SUBSET RelayUsers,
       mediaFails \in BOOLEAN, dbFails \in BOOLEAN :
        LET r == relayMessage(anonymous_chat, message_queue, a, NewMsg(kind),
                              down, mediaFails, dbFails)
        IN  (\/ statusOf(anonymous_chat, a) # "chatting"
             \/ partnerOf(anonymous_chat, a) = Null)
                => /\ ~r.returned
                   /\ r.log = <<>>
                   /\ r.queue = message_queue

\* C22: relay by a sender who has no record, whose status is not 'chatting' or
\* who has no partner returns false and performs no transport send, no queue
\* insertion and no participant update.
RelayOutsideChatReturnsFalse ==
    /\ []RelayOutsideChatDoesNothing
    /\ [][relayed' = "false"
             => /\ sent' = <<>>
                /\ UNCHANGED <<anonymous_chat, message_queue, submitted, received>>]_vars

\* a message from a participant outside a chat was refused while a message
\* sits in the queue
RelayRefusedOutsideChat ==
    /\ relayed = "false"
    /\ message_queue # <<>>
    /\ \E a \in RelayUsers : statusOf(anonymous_chat, a) \in {"idle", "waiting"}

\* C23: for a message of unsupported kind from a chatting sender, relay notifies
\* the sender that the type cannot be forwarded, sends nothing to the partner,
\* creates no queue entry, and returns false.
UnsupportedIsRefused ==
    \A a \in RelayUsers, b \in RelayUsers, down \in SUBSET RelayUsers,
       mediaFails \in BOOLEAN, dbFails \in BOOLEAN :
        LET r == relayMessage(anonymous_chat, message_queue, a,
                              NewMsg(UnsupportedKind), down, mediaFails, dbFails)
        IN  (a # b /\ MutuallyPaired(anonymous_chat, a, b) /\ down = {})
                => /\ ~r.returned
                   /\ \E k \in DOMAIN r.log : r.log[k] = <<a, "cannot_forward">>
                   /\ \A k \in DOMAIN r.log : r.log[k][1] # b
                   /\ r.queue = message_queue

\* C24: when search calls by two distinct participants b and c interleave while
\* a single participant a is waiting, exactly one pairing wins: in the final
\* state a is mutually paired with exactly one of b and c, and the other one is
\* not chatting with a as its partner.  Participant 1 is the one waiting, the
\* racers are the others; stated of every state in which no handler is in
\* flight: no two racers are both chatting with participant 1.
RaceHasOneWinner ==
    Quiet => \A b \in Racers, c \in Racers :
                 b # c => ~(Chatting(anonymous_chat, b, 1) /\ Chatting(anonymous_chat, c, 1))

\* C25: relay never surfaces a transient delivery failure to its caller: for any
\* transport or decode error while forwarding, relay does not throw; it returns
\* true, and the only user-visible effect is the deferred-delivery notice to the
\* sender (which is sent whenever the queue insert and that send work).
RelayHidesDeliveryFailure ==
    \A a \in RelayUsers, kind \in MessageKinds, down \in SUBSET RelayUsers,
       mediaFails \in BOOLEAN, dbFails \in BOOLEAN :
        LET r == relayMessage(anonymous_chat, message_queue, a, NewMsg(kind),
                              down, mediaFails, dbFails)
        IN  ForwardFails(anonymous_chat, a, kind, down, mediaFails)
                => /\ r.returned
                   /\ \A k \in DOMAIN r.log : r.log[k] = <<a, "deferred">>
                   /\ Len(r.log) <= 1
                   /\ (~dbFails /\ a \notin down) => Len(r.log) = 1

\* a relay between two paired participants failed to forward, returned true and
\* sent nothing but the deferred-delivery notice
DeliveryFailureWasHidden ==
    \E a \in RelayUsers :
        /\ InChat(anonymous_chat, a) /\ partnerOf(anonymous_chat, a) # a
        /\ relayed = "true"
        /\ sent = << <<a, "deferred">> >>
        /\ \E i \in DOMAIN message_queue : message_queue[i].sender = a

\* C26: if a store read or write fails during search, next, stop or relay, the
\* failure is propagated to the caller of that operation; a store failure is
\* never reported as a normal outcome such as 'no record', 'not chatting' or
\* relay returning false.  Stated of the read of the sender's record in relay and
\* in stop, for a participant chatting with another one, transport working.
StoreFailureIsNotANormalOutcome ==
    \A a \in RelayUsers, kind \in MessageKinds :
        LET r == relayMessageOnRead(anonymous_chat, message_queue, a, NewMsg(kind),
                                    {}, FALSE, FALSE, TRUE)
            s == handleStopOnRead(anonymous_chat, a, now, {}, TRUE)
        IN  (InChat(anonymous_chat, a) /\ partnerOf(anonymous_chat, a) # a)
                => /\ r.returned
                   /\ r.outcome # "not_in_chat"
                   /\ s.log # << <<a, "no_session">> >>

\* the participants who have a record
RecordIds(coll) == {coll[i].id : i \in DOMAIN coll}

\* C27: participant records are created only by search and are never deleted:
\* once a record for P exists it exists in every later state, and next, stop,
\* sendpp, relay, drain and the recent-partner cleanup never create or delete a
\* participant record.  Every step keeps the records there are, one per
\* participant, and a step that adds one is the search of the participant added.
RecordsOnlyFromSearch ==
    [][/\ RecordIds(anonymous_chat) \subseteq RecordIds(anonymous_chat')
       /\ Cardinality(RecordIds(anonymous_chat')) = Len(anonymous_chat')
       /\ \A p \in RecordIds(anonymous_chat') \ RecordIds(anonymous_chat) :
              \E down \in SUBSET RelayUsers : Search(p, down)]_vars

\* every participant has a record, and one of them has been reset by a stop
RecordsOutliveStop ==
    /\ RecordIds(anonymous_chat) = RelayUsers
    /\ \E a \in RelayUsers :
           /\ statusOf(anonymous_chat, a) = "idle"
           /\ \E k \in DOMAIN sent : sent[k] = <<a, "stopped">>

\* the records after the same command ran twice in succession, and after it ran
\* once, are the same
SameAfterTwice(once, twice) == twice = once

\* C28: search, next and stop are idempotent: executing the same command twice
\* in succession for the same participant, with no other event in between,
\* leaves the status, partner and recentPartners of every participant and the
\* message queue equal to the state after executing it once.  The records are
\* compared for every participant and every state of the transport, which is the
\* same on both runs; none of the three commands writes the queue.
CommandsAreIdempotent ==
    \A a \in RelayUsers, down \in SUBSET RelayUsers :
        /\ LET once == handleSearch(anonymous_chat, a, now, down).coll
           IN  SameAfterTwice(once, handleSearch(once, a, now, down).coll)
        /\ LET once == handleNext(anonymous_chat, a, now, down).coll
           IN  SameAfterTwice(once, handleNext(once, a, now, down).coll)
        /\ LET once == handleStop(anonymous_chat, a, now, down).coll
           IN  SameAfterTwice(once, handleStop(once, a, now, down).coll)

\* Supporting lemma: search and stop are idempotent everywhere, and next is for
\* every participant that is not its own partner.
IdempotentUnlessOwnPartner ==
    \A a \in RelayUsers, down \in SUBSET RelayUsers :
        /\ LET once == handleSearch(anonymous_chat, a, now, down).coll
           IN  SameAfterTwice(once, handleSearch(once, a, now, down).coll)
        /\ LET once == handleNext(anonymous_chat, a, now, down).coll
           IN  partnerOf(anonymous_chat, a) # a
                   => SameAfterTwice(once, handleNext(once, a, now, down).coll)
        /\ LET once == handleStop(anonymous_chat, a, now, down).coll
           IN  SameAfterTwice(once, handleStop(once, a, now, down).coll)

\* C29: no participant state is terminal: from every reachable state, a
\* participant P with a record who issues stop and then search (transport and
\* store working, no other events in between) ends in 'waiting' or 'chatting'.
StopThenSearchReenters ==
    \A a \in Users :
        LET stopped == handleStop(anonymous_chat, a, now, {}).coll
            searched == handleSearch(stopped, a, now, {}).coll
        IN  findOneById(anonymous_chat, a) # 0
                => /\ statusOf(stopped, a) = "idle"
                   /\ partnerOf(stopped, a) = Null
                   /\ statusOf(searched, a) \in {"waiting", "chatting"}

\* a participant that was in a chat with another one and stopped has searched
\* again and is waiting, the other one idle
SearchedAgainAfterStop ==
    \E a \in Users, b \in Users :
        /\ a # b
        /\ \E e \in recentPartnersOf(anonymous_chat, a) : e[1] = b
        /\ statusOf(anonymous_chat, a) = "waiting"
        /\ statusOf(anonymous_chat, b) = "idle"
        /\ sent = << <<a, "searching">> >>

\* a step on which processMessageQueue runs
DrainPass ==
    \E down \in SUBSET RelayUsers, findFails \in BOOLEAN, clearFails \in BOOLEAN :
        ConnectionOpen(down, findFails, clearFails)

\* C30: drain is run once after every transport (re)connection and also recurs
\* on a fixed interval while the connection stays open, so a queued message is
\* retried without a reconnect being required: when from some point on the
\* connection stays open with a message from one participant to another in the
\* queue, passes of processMessageQueue go on happening.
DrainRecursWhileOpen ==
    <>[](/\ connection = "open"
         /\ \E i \in DOMAIN message_queue :
                message_queue[i].sender # message_queue[i].recipient)
        => []<><<DrainPass>>_vars

----------------------------------------------------------------------------
(* Identities *)

\* an identifier no participant of the relay specifications has
OtherId == NumRelayUsers + 1

\* identifier x in the execution in which p is called q and q is called p
Renamed(x, p, q) == IF x = p THEN q ELSE IF x = q THEN p ELSE x

RenamedSet(S, p, q) == {Renamed(x, p, q) : x \in S}

\* the collection of the execution that differs only in p being called q
RenamedColl(coll, p, q) ==
    [i \in DOMAIN coll |->
        [id |-> Renamed(coll[i].id, p, q),
         status |-> coll[i].status,
         partner |-> Renamed(coll[i].partner, p, q),
         recentPartners |-> {<<Renamed(e[1], p, q), e[2]>> : e \in coll[i].recentPartners}]]

RenamedDoc(doc, p, q) ==
    [doc EXCEPT !.sender = Renamed(@, p, q), !.recipient = Renamed(@, p, q)]

RenamedQueue(queue, p, q) == [i \in DOMAIN queue |-> RenamedDoc(queue[i], p, q)]

\* the contents the transport delivered to recipient, in order
RECURSIVE ContentsTo(_, _)
ContentsTo(log, recipient) ==
    IF log = <<>> THEN <<>>
    ELSE (IF log[1][1] = recipient THEN <<log[1][2]>> ELSE <<>>)
             \o ContentsTo(Tail(log), recipient)

\* C31: relay and matchmaking notices do not reveal identities: what the
\* transport delivers to a recipient R through relay, drain and partner notices
\* depends only on the message content and never on the identifier of R's
\* partner.  For every reachable state, every other participant a and every
\* event, R gets the same sequence of contents in the execution in which a has
\* another identifier.
PartnerIdIsNotRevealed ==
    \A R \in RelayUsers : \A a \in RelayUsers \ {R}, down \in SUBSET RelayUsers :
        LET coll2 == RenamedColl(anonymous_chat, a, OtherId)
            queue2 == RenamedQueue(message_queue, a, OtherId)
            down2 == RenamedSet(down, a, OtherId)
        IN  /\ \A kind \in MessageKinds, mediaFails \in BOOLEAN, dbFails \in BOOLEAN :
                   ContentsTo(relayMessage(anonymous_chat, message_queue, a,
                                           NewMsg(kind), down, mediaFails, dbFails).log, R)
                       = ContentsTo(relayMessage(coll2, queue2, OtherId, NewMsg(kind),
                                                 down2, mediaFails, dbFails).log, R)
            /\ \A i \in DOMAIN message_queue :
                   ContentsTo(deliverQueued(anonymous_chat, message_queue[i], down).log, R)
                       = ContentsTo(deliverQueued(coll2, queue2[i], down2).log, R)
            /\ ContentsTo(handleSearch(anonymous_chat, a, now, down).log, R)
                   = ContentsTo(handleSearch(coll2, OtherId, now, down2).log, R)
            /\ ContentsTo(handleNext(anonymous_chat, a, now, down).log, R)
                   = ContentsTo(handleNext(coll2, OtherId, now, down2).log, R)
            /\ ContentsTo(handleStop(anonymous_chat, a, now, down).log, R)
                   = ContentsTo(handleStop(coll2, OtherId, now, down2).log, R)

\* a message of the partner sits in the queue for a recipient paired with it, so
\* that a pass would deliver it, and the recipient has just got a relayed one
RecipientServedByRelayAndQueue ==
    \E R \in RelayUsers : \E a \in RelayUsers \ {R} :
        /\ MutuallyPaired(anonymous_chat, a, R)
        /\ \E i \in DOMAIN message_queue :
               /\ message_queue[i].sender = a /\ message_queue[i].recipient = R
               /\ deliverQueued(anonymous_chat, message_queue[i], {}).delivered
        /\ ContentsTo(handleStop(anonymous_chat, a, now, {}).log, R) = <<"partner_ended">>

----------------------------------------------------------------------------
(* The queue and the pending query *)

\* the documents getPendingMessages hands to the loop of processMessageQueue
PendingIds(queue) ==
    LET pendingMessages == getPendingMessages(queue, FALSE)
    IN  {pendingMessages[k]._id : k \in DOMAIN pendingMessages}

\* C32: every Queued Message inserted by relay's failure path is eligible for
\* the next drain pass: the record that relay writes is returned by the queue
\* store's pending-message query, so it is attempted by the next drain.
QueuedIsPending ==
    \A a \in RelayUsers, kind \in MessageKinds, down \in SUBSET RelayUsers,
       mediaFails \in BOOLEAN :
        LET m == NewMsg(kind)
            r == relayMessage(anonymous_chat, message_queue, a, m,
                              down, mediaFails, FALSE)
        IN  (ForwardFails(anonymous_chat, a, kind, down, mediaFails)
             /\ partnerOf(anonymous_chat, a) # a)
                => /\ QueuedFor(r.queue, m.id) # {}
                   /\ \A i \in QueuedFor(r.queue, m.id) :
                          r.queue[i]._id \in PendingIds(r.queue)

----------------------------------------------------------------------------
(* Handlers interleaved at their awaits *)

\* C33: there is at most one participant record per user identifier, even when
\* two search calls by the same new participant interleave at their store
\* suspension points.
OneRecordPerUser ==
    \A i \in DOMAIN anonymous_chat, j \in DOMAIN anonymous_chat :
        anonymous_chat[i].id = anonymous_chat[j].id => i = j

\* C34: a failure partway through a match is all-or-nothing: if the store write
\* for the candidate fails (or the process stops) after the searcher's record
\* was set to chatting, the searcher is not left chatting with a partner whose
\* own record does not point back to it.  Stated of every state in which no
\* handler is in flight.
MatchIsAllOrNothing ==
    Quiet => \A a \in RaceUsers, b \in RaceUsers :
                 (a # b /\ Chatting(anonymous_chat, a, b))
                     => Chatting(anonymous_chat, b, a)

----------------------------------------------------------------------------
(* What a command leaves alone *)

\* the status and partner of c are the same in both collections
SameStatusAndPartner(coll1, coll2, c) ==
    /\ statusOf(coll1, c) = statusOf(coll2, c)
    /\ partnerOf(coll1, c) = partnerOf(coll2, c)

\* C35: stop(a) and next(a) change the status and partner only of a and of a
\* participant whose partner is a: a participant that is currently chatting
\* with someone other than a is never reset to idle by a's stop or next.
StopAndNextSpareOtherChats ==
    \A a \in Users, c \in Users, down \in SUBSET Users :
        (/\ c # a
         /\ statusOf(anonymous_chat, c) = "chatting"
         /\ partnerOf(anonymous_chat, c) \notin {a, c, Null})
            => /\ SameStatusAndPartner(anonymous_chat,
                       handleStop(anonymous_chat, a, now, down).coll, c)
               /\ SameStatusAndPartner(anonymous_chat,
                       handleNext(anonymous_chat, a, now, down).coll, c)

\* C36: relay forwards or queues a message from a for recipient b only when b's
\* record is chatting with partner a at that moment: content is never forwarded
\* to a participant who is not currently paired with the sender.
RelayOnlyToCurrentPartner ==
    \A a \in RelayUsers, b \in RelayUsers, kind \in MessageKinds,
       down \in SUBSET RelayUsers, mediaFails \in BOOLEAN, dbFails \in BOOLEAN :
        LET m == NewMsg(kind)
            r == relayMessage(anonymous_chat, message_queue, a, m,
                              down, mediaFails, dbFails)
        IN  (/\ a # b
             /\ \/ SentTo(r, b)
                \/ \E i \in QueuedFor(r.queue, m.id) : r.queue[i].recipient = b)
                => Chatting(anonymous_chat, b, a)

----------------------------------------------------------------------------
(* The exclusion window *)

\* the entry is older than the window at time t
Expired(e, t) == e[2] < t - ExclusionWindow

\* C37: the periodic recent-partner cleanup removes from every participant
\* exactly the recentPartners entries whose timestamp is older than one hour, and
\* leaves every unexpired entry and every participant's status and partner
\* unchanged.
CleanupPurgesExactlyExpired ==
    [][cleanupRecentPartners
          => /\ RecordIds(anonymous_chat') = RecordIds(anonymous_chat)
             /\ Len(anonymous_chat') = Len(anonymous_chat)
             /\ \A a \in ClockUsers :
                    /\ recentPartnersOf(anonymous_chat', a)
                           = {e \in recentPartnersOf(anonymous_chat, a) : ~Expired(e, now)}
                    /\ SameStatusAndPartner(anonymous_chat, anonymous_chat', a)]_vars

\* the cleanup has run in a chat that is older than the window: a is chatting
\* with b, the entry made for b at the match is gone and an entry that is exactly
\* as old as the window is still there
ExpiredEntryWasPurged ==
    \E a \in ClockUsers, b \in ClockUsers :
        /\ a # b
        /\ Chatting(anonymous_chat, a, b)
        /\ \A e \in recentPartnersOf(anonymous_chat, a) : e[1] # b
        /\ \E e \in recentPartnersOf(anonymous_chat, b) : e[2] = now - ExclusionWindow
        /\ sent = <<>>

\* C38: an expired recentPartners entry does not exclude: when every entry for b
\* in a's recentPartners is older than the exclusion window, b is not in the
\* exclusion set computed by search(a), whether or not the cleanup has purged
\* those entries yet; a search by a (not in a chat) with b waiting then makes a
\* match.
ExpiredEntryDoesNotExclude ==
    \A a \in ClockUsers, b \in ClockUsers :
        (\A e \in recentPartnersOf(anonymous_chat, a) : e[1] = b => Expired(e, now))
            => /\ b \notin currentRecentPartners(recentPartnersOf(anonymous_chat, a), now)
               /\ (/\ findOneById(anonymous_chat, a) # 0
                   /\ partnerOf(anonymous_chat, a) = Null
                   /\ a # b
                   /\ statusOf(anonymous_chat, b) = "waiting")
                      => handleSearch(anonymous_chat, a, now, {}).match # Null

\* a has been matched with b again while its expired entry for b was still in
\* its list
RematchedAfterExpiry ==
    \E a \in ClockUsers, b \in ClockUsers :
        /\ a # b
        /\ MutuallyPaired(anonymous_chat, a, b)
        /\ <<b, now>> \in recentPartnersOf(anonymous_chat, a)
        /\ \E e \in recentPartnersOf(anonymous_chat, a) : e[1] = b /\ Expired(e, now)

\* a and b are both waiting and neither is in the other's unexpired recentPartners
EligibleWaitingPair(coll, a, b, t) ==
    /\ a # b
    /\ statusOf(coll, a) = "waiting"
    /\ statusOf(coll, b) = "waiting"
    /\ b \notin currentRecentPartners(recentPartnersOf(coll, a), t)
    /\ a \notin currentRecentPartners(recentPartnersOf(coll, b), t)

\* C39: after any sequence of completed search, next and stop commands in which
\* no recentPartners entry expires, there are never two distinct participants
\* that are both 'waiting' while neither is in the other's unexpired
\* recentPartners.
NoEligibleWaitingPair ==
    \A a \in Users, b \in Users : ~EligibleWaitingPair(anonymous_chat, a, b, now)

\* two participants that were matched with each other before are both waiting,
\* each in the other's unexpired recentPartners, the second one having just
\* searched and found no one
ExcludedPairBothWaiting ==
    \E a \in Users, b \in Users :
        /\ a # b
        /\ statusOf(anonymous_chat, a) = "waiting"
        /\ statusOf(anonymous_chat, b) = "waiting"
        /\ b \in currentRecentPartners(recentPartnersOf(anonymous_chat, a), now)
        /\ a \in currentRecentPartners(recentPartnersOf(anonymous_chat, b), now)
        /\ sent = << <<b, "searching">> >>

====
